---- MODULE Spec2Model ----
(***************************************************************************)
(* ESPHomeDashboardAPI (esphome_dashboard_api/__init__.py): the log        *)
(* streaming client stream_logs and its callers compile and upload.        *)
(*                                                                         *)
(* A call of stream_logs is a coroutine; its position is pc[c]:            *)
(*   idle -> connect -> send -> recv (<-> sink) -> exit -> returned|raised *)
(* connect is the await of ws_connect, send the await of send_json, recv   *)
(* the await inside `async for msg in client`, exit the await of the       *)
(* context manager's __aexit__ (which closes the websocket) with the       *)
(* return value or the exception already decided, sink the synchronous     *)
(* call of line_received_cb.  The loop body has no await of its own.       *)
(***************************************************************************)
EXTENDS Integers, Sequences, FiniteSets, TLC

VARIABLES
    pc,        \* pc[c]: where call c of stream_logs stands
    path,      \* path[c]: the `path` argument
    params,    \* params[c]: the `params` argument (a dict)
    cb,        \* cb[c]: the `line_received_cb` argument
    ws,        \* ws[c]: the websocket of the call: "none", "open", "closed"
    wire,      \* wire[c]: every frame the server has pushed on the session
    inbox,     \* inbox[c]: frames pushed and not yet received by the loop
    consumed,  \* consumed[c]: frames the loop has received, in order
    sent,      \* sent[c]: messages the client has sent on the session
    sink,      \* sink[c]: arguments of the line_received_cb invocations
    logged,    \* logged[c]: arguments of the logging error(...) calls
    decoded,   \* decoded[c]: number of msg.json() calls
    outcome,   \* outcome[c]: "none", or the returned bool "True" / "False"
    exc,       \* exc[c]: "none", or the exception leaving the call
    running,   \* running[c]: line_received_cb invocations begun and not ended
    sinkRaised, \* sinkRaised[c]: an invocation of line_received_cb has raised
    req        \* the request layer: the one get_config / get_encryption_key /
               \* get_devices call in progress

\* The state of the stream_logs calls.
streamVars == <<pc, path, params, cb, ws, wire, inbox, consumed, sent, sink,
                logged, decoded, outcome, exc, running, sinkRaised>>

vars == <<streamVars, req>>

(***************************************************************************)
(* Bounds.                                                                 *)
(***************************************************************************)
\* Frames the server pushes on one session.
MaxFrames == 3

\* The calls that may be made on the one API object.
Calls == {1, 2}

(***************************************************************************)
(* Python values.                                                          *)
(***************************************************************************)
\* s[-1]
Last(s) == s[Len(s)]

\* None, as returned by dict.get for a missing key.
PyNone == "<None>"

\* A dict is a function from its keys; {} is the empty function.
EmptyDict == <<>>

\* dict.get(key): the value, or None when the key is missing.
DictGet(d, k) == IF k \in DOMAIN d THEN d[k] ELSE PyNone

\* {**a, **b}: the keys of both, b winning.
DictMerge(a, b) ==
    [k \in (DOMAIN a) \cup (DOMAIN b) |-> IF k \in DOMAIN b THEN b[k] ELSE a[k]]

(***************************************************************************)
(* Frames.  A frame has the aiohttp message type and, for a TEXT frame,    *)
(* its text: either not JSON at all, or JSON that is not an object, or a   *)
(* JSON object.                                                            *)
(***************************************************************************)
Text(doc) == [type |-> "TEXT", json |-> TRUE, isdict |-> TRUE, doc |-> doc]
TextNotJson == [type |-> "TEXT", json |-> FALSE, isdict |-> FALSE, doc |-> EmptyDict]
TextNotDict == [type |-> "TEXT", json |-> TRUE, isdict |-> FALSE, doc |-> EmptyDict]
NonText(t) == [type |-> t, json |-> FALSE, isdict |-> FALSE, doc |-> EmptyDict]

Docs ==
    { [event |-> "line", data |-> "a"],
      [event |-> "line", data |-> "b"],
      [event |-> "line"],
      [event |-> "exit", code |-> 0],
      [event |-> "exit", code |-> 1],
      [event |-> "exit"],
      [event |-> "weird"],
      [code |-> 0],
      EmptyDict }

\* Types other than TEXT that the iteration hands to the loop body.
DataTypes == {"BINARY", "ERROR"}

\* Types on which WebSocket iteration stops.
CloseTypes == {"CLOSE", "CLOSING", "CLOSED"}

\* What the server may put on the wire.
Frames ==
    {Text(d) : d \in Docs} \cup {TextNotJson, TextNotDict}
        \cup {NonText(t) : t \in DataTypes \cup {"CLOSE", "CLOSED"}}

Sinks == {"none", "ok", "faulty"}

(***************************************************************************)
(* Decoded JSON, as the request layer sees it: None (JSON null), a str,    *)
(* or a dict from keys to decoded JSON.                                    *)
(***************************************************************************)
JNull == [t |-> "null"]
JStr(str) == [t |-> "str", s |-> str]
JDict(items) == [t |-> "dict", items |-> items]

\* d.get(k) for a dict d: the value, or None when the key is missing.
JGet(d, k) == IF k \in DOMAIN d.items THEN d.items[k] ELSE JNull

\* bool(v): None, "" and {} are falsy.
Truthy(v) == v \notin {JNull, JStr(""), JDict(EmptyDict)}

\* No exception.
NoExc == [cls |-> "none", status |-> 0]

\* The exceptions of the request layer.  aiohttp.ContentTypeError is a
\* subclass of aiohttp.ClientResponseError and carries the response status.
ClientConnectionError == [cls |-> "ClientConnectionError", status |-> 0]
ClientResponseError(status) == [cls |-> "ClientResponseError", status |-> status]
ContentTypeError(status) == [cls |-> "ContentTypeError", status |-> status]
JSONDecodeError == [cls |-> "JSONDecodeError", status |-> 0]

\* isinstance(err, aiohttp.ClientResponseError)
IsClientResponseError(e) == e.cls \in {"ClientResponseError", "ContentTypeError"}

\* How a call ends: by returning value, or by raising exc.
Ok(v) == [ok |-> TRUE, value |-> v, exc |-> NoExc]
Err(e) == [ok |-> FALSE, value |-> JNull, exc |-> e]

\* The configuration documents the dashboard may store: `api` missing, null
\* (an empty `api:` section) or a dict; `encryption` and `key` likewise.
EncryptionSections ==
    { JNull, JDict(EmptyDict), JDict([key |-> JNull]),
      JDict([key |-> JStr("")]), JDict([key |-> JStr("k")]) }

ApiSections ==
    { JNull, JDict(EmptyDict), JDict([port |-> JStr("6053")]) }
        \cup {JDict([encryption |-> e]) : e \in EncryptionSections}

ConfigDocs ==
    { JDict(EmptyDict), JDict([esphome |-> JStr("node")]) }
        \cup {JDict([api |-> a]) : a \in ApiSections}

\* What the dashboard may answer: a status, a content type that is JSON or
\* not, a body that is JSON or not, and the decoded body.
Response(status, ctype, json, body) ==
    [status |-> status, ctype |-> ctype, json |-> json, body |-> body]

Responses ==
    {Response(200, TRUE, TRUE, d) : d \in ConfigDocs}
        \cup {Response(200, FALSE, TRUE, JDict(EmptyDict)),
              Response(200, TRUE, FALSE, JDict(EmptyDict))}
        \cup {Response(st, TRUE, TRUE, JDict(EmptyDict)) : st \in {400, 404, 500}}

\* The request layer before any request.
NoRequest ==
    [pc |-> "idle", op |-> "none", method |-> "", path |-> "", query |-> EmptyDict,
     failed |-> FALSE, resp |-> Response(0, FALSE, FALSE, JNull), res |-> Ok(JNull)]

(***************************************************************************)
(* Initial state: the API object is constructed, no call is made.          *)
(***************************************************************************)
Init ==
    /\ pc = [c \in Calls |-> "idle"]
    /\ path = [c \in Calls |-> ""]
    /\ params = [c \in Calls |-> EmptyDict]
    /\ cb = [c \in Calls |-> "none"]
    /\ ws = [c \in Calls |-> "none"]
    /\ wire = [c \in Calls |-> <<>>]
    /\ inbox = [c \in Calls |-> <<>>]
    /\ consumed = [c \in Calls |-> <<>>]
    /\ sent = [c \in Calls |-> <<>>]
    /\ sink = [c \in Calls |-> <<>>]
    /\ logged = [c \in Calls |-> <<>>]
    /\ decoded = [c \in Calls |-> 0]
    /\ outcome = [c \in Calls |-> "none"]
    /\ exc = [c \in Calls |-> "none"]
    /\ running = [c \in Calls |-> 0]
    /\ sinkRaised = [c \in Calls |-> FALSE]
    /\ req = NoRequest

(***************************************************************************)
(* The body of the receive loop, one statement per definition.             *)
(***************************************************************************)
\* str(bool), the form outcome[c] keeps a returned bool in.
PyBool(b) == IF b THEN "True" ELSE "False"

\* What one pass through the loop body does: how control leaves it, the
\* value returned or exception raised, the sink invocations and the
\* diagnostics it made, and whether it called msg.json().
Effect(ctl, ret, e, calls, logs, dec) ==
    [ctl |-> ctl, ret |-> ret, exc |-> e, sink |-> calls, log |-> logs, dec |-> dec]

Return(ret, logs, dec) == Effect("return", ret, "none", <<>>, logs, dec)
Raise(e, calls, dec) == Effect("raise", "none", e, calls, <<>>, dec)
Continue(calls) == Effect("continue", "none", "none", calls, <<>>, 1)

\* `async for`: iteration stops on a closing frame.
StopsIteration(msg) == msg.type \in CloseTypes

\* A slip: binary frames let through to the decoder with the text ones.
IsTextOrBinary(msg) == msg.type \in {"TEXT", "BINARY"}

\* if msg.type != aiohttp.WSMsgType.TEXT
IsText(msg) == msg.type = "TEXT"

\* return False (the frame is not text)
NonTextResult == PyBool(FALSE)

\* A slip: return bool(data["code"]), the truth of the code, not its being 0.
ExitResultTruthy(data) == PyBool(data.code # 0)

\* data["code"] == 0
ExitResult(data) == PyBool(data.code = 0)

\* if event == "exit": return data["code"] == 0
OnExit(data) ==
    IF "code" \in DOMAIN data
    THEN Return(ExitResult(data), <<>>, 1)
    ELSE Raise("KeyError", <<>>, 1)

\* logging.getLogger(__name__).error("Unexpected event during %s: %s", path, event)
Diagnostic(p, event) == [path |-> p, event |-> event]

\* A slip: an unknown event skipped (`continue`) instead of ending the loop.
OnUnexpectedIgnored(p, event) == Continue(<<>>)

\* if event != "line": log, return False
OnUnexpected(p, event) == Return(PyBool(FALSE), <<Diagnostic(p, event)>>, 1)

\* A slip: a `return False` after the sink call, so that a line ends the loop.
OnLineReturns(data, callback, fails) == Return(PyBool(FALSE), <<>>, 1)

\* A slip: the sink called under `try: ... except Exception: pass`.
OnLineSwallows(data, callback, fails) ==
    IF callback = "none"
    THEN Continue(<<>>)
    ELSE IF "data" \notin DOMAIN data
    THEN Raise("KeyError", <<>>, 1)
    ELSE Continue(<<data.data>>)

\* A slip: the line received and the sink never told.
OnLineMute(data, callback, fails) == Continue(<<>>)

\* if line_received_cb: line_received_cb(data["data"])
OnLine(data, callback, fails) ==
    IF callback = "none"
    THEN Continue(<<>>)
    ELSE IF "data" \notin DOMAIN data
    THEN Raise("KeyError", <<>>, 1)
    ELSE IF fails
    THEN Raise("SinkError", <<data.data>>, 1)
    ELSE Continue(<<data.data>>)

\* The classification of a decoded dict by its event.
Dispatch(data, p, callback, fails) ==
    LET event == DictGet(data, "event")
    IN  IF event = "exit" THEN OnExit(data)
        ELSE IF event # "line" THEN OnUnexpected(p, event)
        ELSE OnLine(data, callback, fails)

\* A slip: frames that are not text skipped (`continue`), not ending the loop.
LoopBodySkipsNonText(msg, p, callback, fails) ==
    IF ~IsText(msg) THEN Effect("continue", "none", "none", <<>>, <<>>, 0)
    ELSE IF ~msg.json THEN Raise("JSONDecodeError", <<>>, 1)
    ELSE IF ~msg.isdict THEN Raise("AttributeError", <<>>, 1)
    ELSE Dispatch(msg.doc, p, callback, fails)

\* The loop body for one message.
LoopBody(msg, p, callback, fails) ==
    IF ~IsText(msg) THEN Return(NonTextResult, <<>>, 0)
    ELSE IF ~msg.json THEN Raise("JSONDecodeError", <<>>, 1)
    ELSE IF ~msg.isdict THEN Raise("AttributeError", <<>>, 1)
    ELSE Dispatch(msg.doc, p, callback, fails)

\* A slip: the end of the stream taken for success.
LoopExhaustedTrue == Return(PyBool(TRUE), <<>>, 0)

\* return False (after the loop)
LoopExhausted == Return(PyBool(FALSE), <<>>, 0)

(***************************************************************************)
(* The calls.                                                              *)
(***************************************************************************)
Configurations == {"cfg"}
Ports == {"port"}

\* The state of call c on entry to stream_logs(path, params, line_received_cb).
Enter(c, p, args, callback) ==
    /\ pc[c] = "idle"
    /\ pc' = [pc EXCEPT ![c] = "connect"]
    /\ path' = [path EXCEPT ![c] = p]
    /\ params' = [params EXCEPT ![c] = args]
    /\ cb' = [cb EXCEPT ![c] = callback]
    /\ UNCHANGED <<ws, wire, inbox, consumed, sent, sink, logged, decoded,
                   outcome, exc, running, sinkRaised, req>>

Compile(c) ==
    \E configuration \in Configurations, callback \in Sinks :
        Enter(c, "compile", [configuration |-> configuration], callback)

Upload(c) ==
    \E configuration \in Configurations, port \in Ports, callback \in Sinks :
        Enter(c, "upload", [configuration |-> configuration, port |-> port],
              callback)

\* A caller's own params, here with a key of its own named "type".
DirectParams == {[configuration |-> "cfg", type |-> "exec"]}

StreamLogs(c) ==
    \E args \in DirectParams, callback \in Sinks :
        Enter(c, "run", args, callback)

\* A slip: a failure to connect caught and turned into `return False`.
WsConnectSwallows(c) ==
    /\ pc[c] = "connect"
    /\ \/ /\ ws' = [ws EXCEPT ![c] = "open"]
          /\ pc' = [pc EXCEPT ![c] = "send"]
          /\ UNCHANGED outcome
       \/ /\ outcome' = [outcome EXCEPT ![c] = "False"]
          /\ pc' = [pc EXCEPT ![c] = "returned"]
          /\ UNCHANGED ws
    /\ UNCHANGED <<path, params, cb, wire, inbox, consumed, sent, sink, logged,
                   decoded, exc, running, sinkRaised, req>>

\* async with self.session.ws_connect(...) as client
WsConnect(c) ==
    /\ pc[c] = "connect"
    /\ \/ /\ ws' = [ws EXCEPT ![c] = "open"]
          /\ pc' = [pc EXCEPT ![c] = "send"]
          /\ UNCHANGED exc
       \/ /\ exc' = [exc EXCEPT ![c] = "ClientError"]
          /\ pc' = [pc EXCEPT ![c] = "raised"]
          /\ UNCHANGED ws
    /\ UNCHANGED <<path, params, cb, wire, inbox, consumed, sent, sink, logged,
                   decoded, outcome, running, sinkRaised, req>>

\* A slip: the spawn message sent without the params.
SpawnMessageBare(args) == [type |-> "spawn"]

\* {"type": "spawn", **params}
SpawnMessage(args) == DictMerge([type |-> "spawn"], args)

\* await client.send_json({"type": "spawn", **params})
SendSpawn(c) ==
    /\ pc[c] = "send"
    /\ \/ /\ sent' = [sent EXCEPT ![c] = Append(@, SpawnMessage(params[c]))]
          /\ pc' = [pc EXCEPT ![c] = "recv"]
          /\ UNCHANGED exc
       \/ /\ exc' = [exc EXCEPT ![c] = "ConnectionResetError"]
          /\ pc' = [pc EXCEPT ![c] = "exit"]
          /\ UNCHANGED sent
    /\ UNCHANGED <<path, params, cb, ws, wire, inbox, consumed, sink, logged,
                   decoded, outcome, running, sinkRaised, req>>

\* The server has closed its side once a closing frame is on the wire.
ServerClosed(c) == \E i \in DOMAIN wire[c] : StopsIteration(wire[c][i])

\* The dashboard pushes one frame on the session of call c.
ServerPush(c) ==
    /\ ws[c] = "open"
    /\ ~ServerClosed(c)
    /\ Len(wire[c]) < MaxFrames
    /\ \E f \in Frames :
          /\ wire' = [wire EXCEPT ![c] = Append(@, f)]
          /\ inbox' = [inbox EXCEPT ![c] = Append(@, f)]
    /\ UNCHANGED <<pc, path, params, cb, ws, consumed, sent, sink, logged,
                   decoded, outcome, exc, running, sinkRaised, req>>

\* A slip: the websocket kept on the API object (self.client), so that every
\* call iterates the one the first call opened.
ClientOnSelf(c) == 1

\* `as client`: the websocket the call iterates is the one it opened itself.
Client(c) == c

\* A slip: the sink run as a task of its own, the loop receiving meanwhile.
ReceivingDuringSink(c) == pc[c] \in {"recv", "sink"}

\* A slip: a `break`-less loop that goes on receiving after the outcome is set.
ReceivingOrExiting(c) == pc[c] \in {"recv", "exit"}

\* The loop is awaiting the next message.
Receiving(c) == pc[c] = "recv"

\* What the loop does with the message it receives.
OnMessage(msg, p, callback, fails) ==
    IF StopsIteration(msg) THEN LoopExhausted ELSE LoopBody(msg, p, callback, fails)

\* async for msg in client: one message received and the loop body run on
\* it, up to the return, the exception, the end of the body or, for a line
\* event with a sink, the invocation of line_received_cb(data["data"]):
\* the call is then inside the sink until SinkReturn.
Receive(c) ==
    /\ Receiving(c)
    /\ inbox[Client(c)] # <<>>
    /\ LET msg == Head(inbox[Client(c)])
           eff == OnMessage(msg, path[c], cb[c], FALSE)
           invoked == eff.sink # <<>>
       IN  /\ inbox' = [inbox EXCEPT ![Client(c)] = Tail(@)]
           /\ consumed' = [consumed EXCEPT ![c] = Append(@, msg)]
           /\ sink' = [sink EXCEPT ![c] = @ \o eff.sink]
           /\ logged' = [logged EXCEPT ![c] = @ \o eff.log]
           /\ decoded' = [decoded EXCEPT ![c] = @ + eff.dec]
           /\ outcome' = [outcome EXCEPT ![c] = eff.ret]
           /\ exc' = [exc EXCEPT ![c] = eff.exc]
           /\ running' = [running EXCEPT ![c] = IF invoked THEN @ + 1 ELSE @]
           /\ pc' = [pc EXCEPT ![c] =
                        IF invoked THEN "sink"
                        ELSE IF eff.ctl = "continue" THEN "recv" ELSE "exit"]
    /\ UNCHANGED <<path, params, cb, ws, wire, sent, sinkRaised, req>>

\* line_received_cb(data["data"]) ends: it returns and the loop goes on to
\* the next message, or (a faulty sink) it raises and the error leaves the
\* loop.
SinkReturn(c) ==
    /\ pc[c] = "sink"
    /\ \E fails \in (IF cb[c] = "faulty" THEN BOOLEAN ELSE {FALSE}) :
          LET eff == OnMessage(Last(consumed[c]), path[c], cb[c], fails)
          IN  /\ exc' = [exc EXCEPT ![c] = eff.exc]
              /\ sinkRaised' = [sinkRaised EXCEPT ![c] = @ \/ fails]
              /\ running' = [running EXCEPT ![c] = @ - 1]
              /\ pc' = [pc EXCEPT ![c] = IF eff.ctl = "continue" THEN "recv" ELSE "exit"]
    /\ UNCHANGED <<path, params, cb, ws, wire, inbox, consumed, sent, sink,
                   logged, decoded, outcome, req>>

\* A slip: the websocket used without `async with`, left open at the end.
StillOpen == "open"

\* The websocket after the context manager's __aexit__.
Closed == "closed"

\* Leaving `async with`: the websocket is closed, then the call ends.
AExit(c) ==
    /\ pc[c] = "exit"
    /\ ws' = [ws EXCEPT ![c] = Closed]
    /\ pc' = [pc EXCEPT ![c] = IF exc[c] = "none" THEN "returned" ELSE "raised"]
    /\ UNCHANGED <<path, params, cb, wire, inbox, consumed, sent, sink, logged,
                   decoded, outcome, exc, running, sinkRaised, req>>

(***************************************************************************)
(* The request layer: request, get_config, get_encryption_key,             *)
(* get_devices.  req.pc: idle -> request -> json -> returned | raised;     *)
(* request is the await of session.request, json the await of resp.json(). *)
(***************************************************************************)
\* resp.raise_for_status()
RaiseForStatus(resp) ==
    IF resp.status >= 400 THEN Err(ClientResponseError(resp.status)) ELSE Ok(JNull)

\* await resp.json()
RespJson(resp) ==
    IF ~resp.ctype THEN Err(ContentTypeError(resp.status))
    ELSE IF ~resp.json THEN Err(JSONDecodeError)
    ELSE Ok(resp.body)

\* request(): the transport failed, or it answered resp.
Request(failed, resp) ==
    IF failed THEN Err(ClientConnectionError)
    ELSE IF ~RaiseForStatus(resp).ok THEN RaiseForStatus(resp)
    ELSE RespJson(resp)

\* A slip: `except aiohttp.ClientResponseError: return None`, any status.
GetConfigBroadCatch(r) ==
    IF r.ok THEN r
    ELSE IF IsClientResponseError(r.exc) THEN Ok(JNull)
    ELSE r

\* get_config, given how its request() ended.
GetConfig(r) ==
    IF r.ok THEN r
    ELSE IF IsClientResponseError(r.exc) /\ r.exc.status = 404 THEN Ok(JNull)
    ELSE r

\* A slip: `return encryption.get("key") or None`.
KeyOrNone(encryption) ==
    IF Truthy(JGet(encryption, "key")) THEN JGet(encryption, "key") ELSE JNull

\* return encryption.get("key")
KeyOf(encryption) == JGet(encryption, "key")

\* get_encryption_key, given how its get_config() ended.
GetEncryptionKey(g) ==
    IF ~g.ok THEN g
    ELSE LET config == g.value
         IN  IF ~Truthy(config) THEN Ok(JNull)
             ELSE LET api == JGet(config, "api")
                  IN  IF api = JNull THEN Ok(JNull)
                      ELSE LET encryption == JGet(api, "encryption")
                           IN  IF encryption = JNull THEN Ok(JNull)
                               ELSE Ok(KeyOf(encryption))

\* get_devices, given how its request() ended.
GetDevices(r) == r

\* The operation op, given how its request() ended.
Finish(op, r) ==
    IF op = "get_config" THEN GetConfig(r)
    ELSE IF op = "get_encryption_key" THEN GetEncryptionKey(GetConfig(r))
    ELSE GetDevices(r)

\* The configuration identifiers a caller may ask for.
ConfigurationIds == {"a.yaml", "b.yaml"}

\* The call reaches `await self.session.request(method, url, **kwargs)`.
Ask(op, method, p, query) ==
    /\ req.pc = "idle"
    /\ req' = [req EXCEPT !.pc = "request", !.op = op, !.method = method,
                          !.path = p, !.query = query]
    /\ UNCHANGED streamVars

CallGetConfig ==
    \E configuration \in ConfigurationIds :
        Ask("get_config", "GET", "json-config", [configuration |-> configuration])

CallGetEncryptionKey ==
    \E configuration \in ConfigurationIds :
        Ask("get_encryption_key", "GET", "json-config",
            [configuration |-> configuration])

CallGetDevices == Ask("get_devices", "GET", "devices", EmptyDict)

\* The state of the request layer when the operation ends as `r`.
Ends(r) == [req EXCEPT !.pc = IF r.ok THEN "returned" ELSE "raised", !.res = r]

\* session.request ends: the transport fails, or the dashboard answers and
\* raise_for_status() is passed or raises.
Respond ==
    /\ req.pc = "request"
    /\ \/ req' = [Ends(Finish(req.op, Request(TRUE, req.resp))) EXCEPT !.failed = TRUE]
       \/ \E resp \in Responses :
             IF RaiseForStatus(resp).ok
             THEN req' = [req EXCEPT !.pc = "json", !.resp = resp]
             ELSE req' = [Ends(Finish(req.op, Request(FALSE, resp))) EXCEPT !.resp = resp]
    /\ UNCHANGED streamVars

\* resp.json() ends, and with it the operation.
ReadJson ==
    /\ req.pc = "json"
    /\ req' = Ends(Finish(req.op, Request(FALSE, req.resp)))
    /\ UNCHANGED streamVars

(***************************************************************************)
(* Spec: one call on the API object, any entry point, any server.          *)
(***************************************************************************)
Solo == {1}

Next ==
    \E c \in Solo :
        \/ Compile(c)
        \/ Upload(c)
        \/ StreamLogs(c)
        \/ WsConnect(c)
        \/ SendSpawn(c)
        \/ ServerPush(c)
        \/ Receive(c)
        \/ SinkReturn(c)
        \/ AExit(c)

Spec == Init /\ [][Next]_vars

(***************************************************************************)
(* SpecFair: Spec with the scheduling of the event loop and a transport    *)
(* that delivers: a step of the call that stays possible is taken (the     *)
(* connection attempt ends, the send ends, a buffered frame is received,   *)
(* the sink returns or raises, the websocket gets closed).  The dashboard  *)
(* is under no obligation to push anything.                                *)
(***************************************************************************)
Fairness ==
    \A c \in Solo :
        /\ WF_vars(WsConnect(c))
        /\ WF_vars(SendSpawn(c))
        /\ WF_vars(Receive(c))
        /\ WF_vars(SinkReturn(c))
        /\ WF_vars(AExit(c))

\* One frame for every way through the loop body (lines 68-86) and for the
\* end of the iteration.
FairFrames ==
    { Text([event |-> "line", data |-> "a"]),
      Text([event |-> "line"]),
      Text([event |-> "exit", code |-> 0]),
      Text([event |-> "exit"]),
      Text([event |-> "weird"]),
      TextNotJson,
      NonText("BINARY"),
      NonText("CLOSE") }

\* The dashboard pushes one frame on the session of call c.
FairPush(c) ==
    /\ ws[c] = "open"
    /\ ~ServerClosed(c)
    /\ Len(wire[c]) < MaxFrames
    /\ \E f \in FairFrames :
          /\ wire' = [wire EXCEPT ![c] = Append(@, f)]
          /\ inbox' = [inbox EXCEPT ![c] = Append(@, f)]
    /\ UNCHANGED <<pc, path, params, cb, ws, consumed, sent, sink, logged,
                   decoded, outcome, exc, running, sinkRaised, req>>

NextFair ==
    \E c \in Solo :
        \/ Compile(c)
        \/ Upload(c)
        \/ StreamLogs(c)
        \/ WsConnect(c)
        \/ SendSpawn(c)
        \/ FairPush(c)
        \/ Receive(c)
        \/ SinkReturn(c)
        \/ AExit(c)

SpecFair == Init /\ [][NextFair]_vars /\ Fairness

(***************************************************************************)
(* SpecPair: two calls of compile / upload on the one API object, their    *)
(* steps interleaved in any way (one after the other included), the        *)
(* dashboard pushing MaxFrames frames in all.                              *)
(***************************************************************************)
\* What the dashboard puts on the wire of the two sessions.
PairFrames ==
    { Text([event |-> "line", data |-> "a"]),
      Text([event |-> "line"]),
      Text([event |-> "exit", code |-> 0]),
      NonText("CLOSE") }

\* The dashboard pushes one frame on the session of call c.
PairPush(c) ==
    /\ ws[c] = "open"
    /\ ~ServerClosed(c)
    /\ Len(wire[1]) + Len(wire[2]) < MaxFrames
    /\ \E f \in PairFrames :
          /\ wire' = [wire EXCEPT ![c] = Append(@, f)]
          /\ inbox' = [inbox EXCEPT ![c] = Append(@, f)]
    /\ UNCHANGED <<pc, path, params, cb, ws, consumed, sent, sink, logged,
                   decoded, outcome, exc, running, sinkRaised, req>>

NextPair ==
    \E c \in Calls :
        \/ Compile(c)
        \/ Upload(c)
        \/ WsConnect(c)
        \/ SendSpawn(c)
        \/ PairPush(c)
        \/ Receive(c)
        \/ SinkReturn(c)
        \/ AExit(c)

SpecPair == Init /\ [][NextPair]_vars

(***************************************************************************)
(* SpecRequest: one operation of the request layer, any answer.            *)
(***************************************************************************)
NextRequest ==
    \/ CallGetConfig
    \/ CallGetEncryptionKey
    \/ CallGetDevices
    \/ Respond
    \/ ReadJson

SpecRequest == Init /\ [][NextRequest]_vars

TypeOK ==
    /\ \A c \in Calls : pc[c] \in {"idle", "connect", "send", "recv", "sink", "exit", "returned", "raised"}
    /\ \A c \in Calls : outcome[c] \in {"none", "True", "False"}
    /\ \A c \in Calls : ws[c] \in {"none", "open", "closed"}

(***************************************************************************)
(* The vocabulary of the properties: what the protocol calls a frame,      *)
(* read off the frame itself.                                              *)
(***************************************************************************)
\* A text frame carrying a JSON object.
IsEvent(f) == f.type = "TEXT" /\ f.json /\ f.isdict

\* The tag of an event, None when it has none.
TagOf(f) == IF "event" \in DOMAIN f.doc THEN f.doc.event ELSE PyNone

IsLineEvent(f) == IsEvent(f) /\ TagOf(f) = "line"

IsExitEvent(f) == IsEvent(f) /\ TagOf(f) = "exit"

IsUnrecognized(f) == IsEvent(f) /\ TagOf(f) \notin {"exit", "line"}

IsClosure(f) == f.type \in {"CLOSE", "CLOSED"}

\* The position in s of the first frame that is not a line event, 0 if none.
FirstNonLine(s) ==
    IF \E i \in 1..Len(s) : ~IsLineEvent(s[i])
    THEN CHOOSE i \in 1..Len(s) :
             /\ ~IsLineEvent(s[i])
             /\ \A j \in 1..(i - 1) : IsLineEvent(s[j])
    ELSE 0

\* The frames of s before its first frame that is not a line event.
LeadingLines(s) ==
    IF FirstNonLine(s) = 0 THEN s ELSE SubSeq(s, 1, FirstNonLine(s) - 1)

\* The data payloads of the line events of s, in order.
RECURSIVE Payloads(_)
Payloads(s) ==
    IF s = <<>> THEN <<>>
    ELSE IF IsLineEvent(Head(s)) /\ "data" \in DOMAIN Head(s).doc
    THEN <<Head(s).doc.data>> \o Payloads(Tail(s))
    ELSE Payloads(Tail(s))

\* The call has ended: it returned or it raised.
Ended(c) == pc[c] \in {"returned", "raised"}

(***************************************************************************)
(* C1.  stream_logs returns True only if the first message on the session  *)
(* that is not a line event is an exit event whose code is 0; when that    *)
(* first message is an exit event with another code and the loop has       *)
(* received it, the call returns False.                                    *)
(***************************************************************************)
C1_TrueOnlyOnExitZero ==
    \A c \in Calls :
        LET i == FirstNonLine(wire[c])
        IN  /\ outcome[c] = "True" =>
                /\ i # 0
                /\ IsExitEvent(wire[c][i])
                /\ "code" \in DOMAIN wire[c][i].doc
                /\ wire[c][i].doc.code = 0
                /\ Len(consumed[c]) = i
            /\ ( /\ i # 0
                 /\ Len(consumed[c]) >= i
                 /\ IsExitEvent(wire[c][i])
                 /\ "code" \in DOMAIN wire[c][i].doc
                 /\ wire[c][i].doc.code # 0 ) =>
                /\ outcome[c] = "False"
                /\ exc[c] = "none"
                /\ pc[c] \in {"exit", "returned"}

\* Two lines, then exit with code 0: the call has returned True.
C1_Witness ==
    /\ pc[1] = "returned"
    /\ outcome[1] = "True"
    /\ Len(consumed[1]) = 3
    /\ IsLineEvent(consumed[1][1])

(***************************************************************************)
(* C2.  With a sink, the sink invocations are exactly the data payloads of *)
(* the line events received so far, in arrival order: the loop receives    *)
(* the frames in the order the server pushed them, skipping none, and      *)
(* receives nothing after the first frame that is not a line event.        *)
(***************************************************************************)
C2_SinkIsLinePayloads ==
    \A c \in Calls :
        /\ wire[c] = consumed[c] \o inbox[c]
        /\ FirstNonLine(consumed[c]) \in {0, Len(consumed[c])}
        /\ cb[c] # "none" => sink[c] = Payloads(LeadingLines(consumed[c]))
        /\ (cb[c] # "none" /\ pc[c] = "returned") =>
               sink[c] = Payloads(LeadingLines(wire[c]))

\* Lines "a" and "b" then exit 0, as in the specification's example.
C2_Witness ==
    /\ pc[1] = "returned"
    /\ cb[1] = "ok"
    /\ sink[1] = <<"a", "b">>
    /\ outcome[1] = "True"

(***************************************************************************)
(* C3.  Once the spawn message is sent, the call never raises for anything *)
(* the server does (the sink itself not failing).                          *)
(***************************************************************************)
C3_NeverRaisesAfterSpawn ==
    \A c \in Calls :
        (sent[c] # <<>> /\ cb[c] # "faulty") => exc[c] = "none"

(***************************************************************************)
(* C4.  A text message that is not valid JSON resolves the outcome to      *)
(* False and does not raise.                                               *)
(***************************************************************************)
C4_UndecodableReturnsFalse ==
    \A c \in Calls :
        ( /\ consumed[c] # <<>>
          /\ Last(consumed[c]).type = "TEXT"
          /\ ~Last(consumed[c]).json ) =>
            /\ outcome[c] = "False"
            /\ exc[c] = "none"

(***************************************************************************)
(* C5.  When the transport closes after any number of line events and no   *)
(* exit event, the call returns False.                                     *)
(***************************************************************************)
C5_ClosureWithoutExitIsFalse ==
    \A c \in Calls :
        ( /\ consumed[c] # <<>>
          /\ IsClosure(Last(consumed[c])) ) =>
            /\ \A i \in 1..(Len(consumed[c]) - 1) : IsLineEvent(consumed[c][i])
            /\ outcome[c] = "False"
            /\ exc[c] = "none"
            /\ pc[c] \in {"exit", "returned"}

\* One line, then closure: the call has returned False.
C5_Witness ==
    /\ pc[1] = "returned"
    /\ Len(consumed[1]) = 2
    /\ IsLineEvent(consumed[1][1])
    /\ IsClosure(consumed[1][2])
    /\ outcome[1] = "False"

(***************************************************************************)
(* C6.  An event with a tag other than exit or line (or with no tag) makes *)
(* the call record one diagnostic naming the path and the event and return *)
(* False; it ends the loop, and the sink has been invoked for the line     *)
(* events before it only.                                                  *)
(***************************************************************************)
C6_UnrecognizedEventFails ==
    \A c \in Calls :
        /\ \A i \in 1..(Len(consumed[c]) - 1) : ~IsUnrecognized(consumed[c][i])
        /\ ( /\ consumed[c] # <<>>
             /\ IsUnrecognized(Last(consumed[c])) ) =>
               /\ logged[c] = <<[path |-> path[c], event |-> TagOf(Last(consumed[c]))]>>
               /\ outcome[c] = "False"
               /\ exc[c] = "none"
               /\ pc[c] \in {"exit", "returned"}
               /\ sink[c] = IF cb[c] = "none" THEN <<>>
                            ELSE Payloads(SubSeq(consumed[c], 1, Len(consumed[c]) - 1))
               /\ Len(sink[c]) <= Len(consumed[c]) - 1

\* Line "a" then {event: "weird"}: False, the sink invoked once.
C6_Witness ==
    /\ pc[1] = "returned"
    /\ cb[1] = "ok"
    /\ Len(consumed[1]) = 2
    /\ IsUnrecognized(consumed[1][2])
    /\ TagOf(consumed[1][2]) = "weird"
    /\ sink[1] = <<"a">>
    /\ outcome[1] = "False"

(***************************************************************************)
(* C7.  A frame that is not text makes the call return False without       *)
(* raising; the frame is not decoded and the sink is not invoked for it,   *)
(* and not at all when it is the first frame.                              *)
(***************************************************************************)
C7_NonTextFrameFails ==
    \A c \in Calls :
        ( /\ consumed[c] # <<>>
          /\ Last(consumed[c]).type # "TEXT" ) =>
            /\ outcome[c] = "False"
            /\ exc[c] = "none"
            /\ pc[c] \in {"exit", "returned"}
            /\ decoded[c] = Len(consumed[c]) - 1
            /\ sink[c] = IF cb[c] = "none" THEN <<>>
                         ELSE Payloads(SubSeq(consumed[c], 1, Len(consumed[c]) - 1))
            /\ Len(consumed[c]) = 1 => sink[c] = <<>>

\* A binary frame first, with a sink: False, the sink never invoked.
C7_Witness ==
    /\ pc[1] = "returned"
    /\ cb[1] = "ok"
    /\ Len(consumed[1]) = 1
    /\ consumed[1][1].type = "BINARY"
    /\ outcome[1] = "False"
    /\ sink[1] = <<>>
    /\ decoded[1] = 0

(***************************************************************************)
(* C8.  The client sends at most one message on a session, and it is       *)
(* {type: "spawn", ...params}; it is sent on the open session before any   *)
(* server message is received, so that every call that has received a      *)
(* message or returned has sent exactly that one message.                  *)
(***************************************************************************)
C8_OneSpawnMessage ==
    \A c \in Calls :
        /\ Len(sent[c]) <= 1
        /\ sent[c] # <<>> =>
              /\ ws[c] # "none"
              /\ DOMAIN sent[c][1] = {"type"} \cup DOMAIN params[c]
              /\ \A k \in DOMAIN params[c] : sent[c][1][k] = params[c][k]
              /\ "type" \notin DOMAIN params[c] => sent[c][1]["type"] = "spawn"
        /\ (pc[c] \in {"send", "connect", "idle"}) => sent[c] = <<>>
        /\ (consumed[c] # <<>> \/ pc[c] \in {"recv", "returned"}) => Len(sent[c]) = 1

\* An upload that has run to its end, three frames received.
C8_Witness ==
    /\ pc[1] = "returned"
    /\ path[1] = "upload"
    /\ Len(consumed[1]) = 3
    /\ sent[1] = <<[type |-> "spawn", configuration |-> "cfg", port |-> "port"]>>

(***************************************************************************)
(* C9.  When a call that opened its session has ended, by returning or by  *)
(* raising, the session is closed; only a call whose ws_connect failed     *)
(* ends without a closed session, having opened none.                      *)
(***************************************************************************)
C9_SessionClosedAtEnd ==
    \A c \in Calls :
        Ended(c) =>
            ws[c] = IF exc[c] = "ClientError" THEN "none" ELSE "closed"

\* An unrecognized event ended the call while the server had not closed.
C9_Witness ==
    /\ pc[1] = "returned"
    /\ ws[1] = "closed"
    /\ IsUnrecognized(Last(consumed[1]))
    /\ \A i \in 1..Len(wire[1]) : ~IsClosure(wire[1][i])

(***************************************************************************)
(* C10.  Once the outcome is resolved, the call receives no further        *)
(* message, does not invoke the sink, sends nothing, and the outcome does  *)
(* not change.                                                             *)
(***************************************************************************)
C10_NothingAfterResolution ==
    [][\A c \in Calls :
          outcome[c] # "none" =>
              /\ consumed'[c] = consumed[c]
              /\ sink'[c] = sink[c]
              /\ sent'[c] = sent[c]
              /\ logged'[c] = logged[c]
              /\ outcome'[c] = outcome[c]]_vars

\* The call has returned with a line event still buffered behind the exit.
C10_Witness ==
    /\ pc[1] = "returned"
    /\ cb[1] = "ok"
    /\ IsExitEvent(Last(consumed[1]))
    /\ inbox[1] # <<>>
    /\ IsLineEvent(inbox[1][1])
    /\ "data" \in DOMAIN inbox[1][1].doc

(***************************************************************************)
(* The vocabulary of the request-layer properties.                         *)
(***************************************************************************)
\* The operation op has ended.
Finished(op) == req.op = op /\ req.pc \in {"returned", "raised"}

\* The dashboard answered with a JSON document, status below 400.
Answered == ~req.failed /\ req.resp.status < 400 /\ req.resp.ctype /\ req.resp.json

\* The value at api -> encryption -> key of a document, None when a segment
\* is missing or null.
HasValue(d, k) == k \in DOMAIN d.items /\ d.items[k] # JNull

KeyAtPath(doc) ==
    IF ~HasValue(doc, "api") THEN JNull
    ELSE IF ~HasValue(doc.items.api, "encryption") THEN JNull
    ELSE IF ~HasValue(doc.items.api.items.encryption, "key") THEN JNull
    ELSE doc.items.api.items.encryption.items.key

(***************************************************************************)
(* C11.  get_config returns None when and only when the request fails with *)
(* status 404; a failure with another status, and any other failure,       *)
(* reaches the caller unchanged; a successful request returns the decoded  *)
(* document.                                                               *)
(***************************************************************************)
C11_GetConfigNotFound ==
    Finished("get_config") =>
        /\ (req.pc = "returned" /\ req.res.value = JNull)
               <=> (~req.failed /\ req.resp.status = 404)
        /\ req.failed =>
               req.pc = "raised" /\ req.res.exc = ClientConnectionError
        /\ (~req.failed /\ req.resp.status >= 400 /\ req.resp.status # 404) =>
               /\ req.pc = "raised"
               /\ req.res.exc = ClientResponseError(req.resp.status)
        /\ (~req.failed /\ req.resp.status < 400 /\ ~req.resp.ctype) =>
               /\ req.pc = "raised"
               /\ req.res.exc = ContentTypeError(req.resp.status)
        /\ (~req.failed /\ req.resp.status < 400 /\ req.resp.ctype /\ ~req.resp.json) =>
               req.pc = "raised" /\ req.res.exc = JSONDecodeError
        /\ Answered => req.pc = "returned" /\ req.res.value = req.resp.body
        /\ req.method = "GET" /\ req.path = "json-config"
        /\ DOMAIN req.query = {"configuration"}

\* get_config has returned None on a 404.
C11_Witness ==
    /\ Finished("get_config")
    /\ req.pc = "returned"
    /\ req.resp.status = 404
    /\ req.res.value = JNull

(***************************************************************************)
(* C12.  get_encryption_key returns None, without raising, when api,       *)
(* api.encryption or api.encryption.key is missing or null (and when the   *)
(* configuration is not found), and otherwise returns the value at         *)
(* api.encryption.key as it is, the empty string included.                 *)
(***************************************************************************)
C12_EncryptionKeyAtPath ==
    Finished("get_encryption_key") =>
        /\ Answered =>
               /\ req.pc = "returned"
               /\ req.res.value = KeyAtPath(req.resp.body)
        /\ (~req.failed /\ req.resp.status = 404) =>
               req.pc = "returned" /\ req.res.value = JNull

\* The key is the empty string, and the empty string is returned.
C12_Witness ==
    /\ Finished("get_encryption_key")
    /\ Answered
    /\ KeyAtPath(req.resp.body) = JStr("")
    /\ req.pc = "returned"
    /\ req.res.value = JStr("")

(***************************************************************************)
(* C14.  When ws_connect fails, stream_logs raises the transport's error   *)
(* and returns no boolean; no spawn message is sent, no server message is  *)
(* received and the sink is never invoked.  A call ends without a session  *)
(* only in this way.                                                       *)
(***************************************************************************)
C14_OpenFailurePropagates ==
    \A c \in Calls :
        /\ (Ended(c) /\ ws[c] = "none") =>
               /\ pc[c] = "raised"
               /\ exc[c] = "ClientError"
        /\ exc[c] = "ClientError" =>
               /\ pc[c] = "raised"
               /\ ws[c] = "none"
               /\ outcome[c] = "none"
               /\ sent[c] = <<>>
               /\ wire[c] = <<>>
               /\ consumed[c] = <<>>
               /\ sink[c] = <<>>
               /\ running[c] = 0

\* A compile with a sink whose connection failed.
C14_Witness ==
    /\ pc[1] = "raised"
    /\ exc[1] = "ClientError"
    /\ cb[1] = "ok"
    /\ path[1] = "compile"

\* A text frame that is JSON and has not the shape of a line or exit event.
C15_Misshapen(f) ==
    /\ f.type = "TEXT"
    /\ f.json
    /\ \/ ~f.isdict
       \/ IsExitEvent(f) /\ "code" \notin DOMAIN f.doc
       \/ IsLineEvent(f) /\ "data" \notin DOMAIN f.doc

(***************************************************************************)
(* C15.  A text frame that is JSON but has not the shape of a line or exit *)
(* event (exit without code, line without data, not an object) makes the   *)
(* call return False, and it does not raise.                               *)
(***************************************************************************)
C15_MisshapenReturnsFalse ==
    \A c \in Calls :
        ( /\ consumed[c] # <<>>
          /\ C15_Misshapen(Last(consumed[c])) ) =>
            /\ outcome[c] = "False"
            /\ exc[c] = "none"

(***************************************************************************)
(* C16.  Within a session at most one sink invocation is in flight, and no *)
(* message is received, and the sink is not invoked, while one is: the     *)
(* sink call for a line event ends before the next message is received.    *)
(***************************************************************************)
C16_OneAtATime ==
    /\ [](\A c \in Calls :
             /\ running[c] \in {0, 1}
             /\ running[c] = 1 <=> pc[c] = "sink")
    /\ [][\A c \in Calls :
             (consumed'[c] # consumed[c] \/ sink'[c] # sink[c]) =>
                 /\ running[c] = 0
                 /\ pc[c] = "recv"
                 /\ consumed'[c] = Append(consumed[c], Head(inbox[c]))]_vars

\* The sink is running for line "a" while the next frame is already there.
C16_Witness ==
    /\ pc[1] = "sink"
    /\ running[1] = 1
    /\ sink[1] = <<"a">>
    /\ inbox[1] # <<>>
    /\ IsLineEvent(inbox[1][1])

\* A frame that may resolve a session.
C18_Resolving(f) ==
    IsExitEvent(f) \/ f.type # "TEXT" \/ IsUnrecognized(f)

\* Call c has received line events only, and its sink has returned each time.
C18_OnlyLines(c) ==
    /\ \A i \in 1..Len(consumed[c]) :
          /\ IsLineEvent(consumed[c][i])
          /\ cb[c] # "none" => "data" \in DOMAIN consumed[c][i].doc
    /\ ~sinkRaised[c]

(***************************************************************************)
(* C18.  A line event never resolves the session: after line events only   *)
(* (each with its data when there is a sink, the sink returning) the call  *)
(* is in the receive loop with no outcome.  An outcome comes only with an  *)
(* exit event, a frame that is not text, an unrecognized event or closure, *)
(* and the call leaves its wait for the next message only by receiving     *)
(* one: there is no timeout, and no return without such a message.         *)
(***************************************************************************)
C18_LineNeverResolves ==
    /\ [](\A c \in Calls :
             /\ outcome[c] # "none" =>
                    consumed[c] # <<>> /\ C18_Resolving(Last(consumed[c]))
             /\ pc[c] = "returned" => outcome[c] # "none"
             /\ (sent[c] # <<>> /\ C18_OnlyLines(c)) =>
                    /\ pc[c] \in {"recv", "sink"}
                    /\ outcome[c] = "none"
                    /\ exc[c] = "none")
    /\ [][\A c \in Calls :
             (pc[c] = "recv" /\ pc'[c] # "recv") =>
                 /\ inbox[c] # <<>>
                 /\ consumed'[c] = Append(consumed[c], Head(inbox[c]))]_vars

\* Three line events received, nothing more to come: the call waits.
C18_Witness ==
    /\ pc[1] = "recv"
    /\ cb[1] = "ok"
    /\ Len(consumed[1]) = 3
    /\ \A i \in 1..3 : IsLineEvent(consumed[1][i])
    /\ inbox[1] = <<>>
    /\ outcome[1] = "none"

(***************************************************************************)
(* C19.  When the sink raises on a line event, the call ends by raising    *)
(* that error: no boolean is returned, no further message is received, the *)
(* sink is not invoked again, and the session is closed.                   *)
(***************************************************************************)
C19_SinkErrorPropagates ==
    /\ [](\A c \in Calls :
             sinkRaised[c] =>
                 /\ exc[c] = "SinkError"
                 /\ outcome[c] = "none"
                 /\ pc[c] \in {"exit", "raised"}
                 /\ running[c] = 0
                 /\ pc[c] = "raised" => ws[c] = "closed"
                 /\ sink[c] # <<>>
                 /\ IsLineEvent(Last(consumed[c]))
                 /\ Last(sink[c]) = Last(consumed[c]).doc.data)
    /\ [][\A c \in Calls :
             sinkRaised[c] =>
                 /\ consumed'[c] = consumed[c]
                 /\ sink'[c] = sink[c]
                 /\ sent'[c] = sent[c]
                 /\ outcome'[c] = "none"
                 /\ exc'[c] = "SinkError"
                 /\ pc'[c] # pc[c] => (pc'[c] = "raised" /\ ws'[c] = "closed")]_vars

\* The sink raised on the second line; a third frame stays unread.
C19_Witness ==
    /\ pc[1] = "raised"
    /\ sinkRaised[1]
    /\ exc[1] = "SinkError"
    /\ Len(sink[1]) = 2
    /\ inbox[1] # <<>>
    /\ ws[1] = "closed"

(***************************************************************************)
(* The vocabulary of the properties of two calls.                          *)
(***************************************************************************)
\* What one call alone, given `callback` and a sink that returns, has done
\* once it has received `frames`: the loop body applied to each in turn.
RECURSIVE Alone(_, _, _)
Alone(frames, p, callback) ==
    IF frames = <<>>
    THEN [outcome |-> "none", exc |-> "none", sink |-> <<>>, logged |-> <<>>]
    ELSE LET before == Alone(SubSeq(frames, 1, Len(frames) - 1), p, callback)
             eff == OnMessage(Last(frames), p, callback, FALSE)
         IN  [outcome |-> eff.ret, exc |-> eff.exc,
              sink |-> before.sink \o eff.sink,
              logged |-> before.logged \o eff.log]

(***************************************************************************)
(* C13.  Sessions are independent: of two calls on the same API object,    *)
(* interleaved in any way, each opens its own session and sends its own    *)
(* spawn message, receives the frames of its own session only, in order,   *)
(* and its outcome, its exception, its sink invocations and its            *)
(* diagnostics are those of the call running alone on the frames it has    *)
(* received, whatever the other call has received or returned.             *)
(***************************************************************************)
C13_SessionsIndependent ==
    \A c \in Calls :
        /\ wire[c] = consumed[c] \o inbox[c]
        /\ sent[c] # <<>> => sent[c] = <<DictMerge([type |-> "spawn"], params[c])>>
        /\ consumed[c] # <<>> => ws[c] # "none" /\ sent[c] # <<>>
        /\ ~sinkRaised[c] =>
              LET alone == Alone(consumed[c], path[c], cb[c])
              IN  /\ outcome[c] = alone.outcome
                  /\ exc[c] \in {alone.exc, "ConnectionResetError", "ClientError"}
                  /\ consumed[c] # <<>> => exc[c] = alone.exc
                  /\ sink[c] = alone.sink
                  /\ logged[c] = alone.logged

\* Both calls have received frames of their own; the first has returned
\* True, the second, with other frames, is still in its loop.
C13_Witness ==
    /\ pc[1] = "returned"
    /\ outcome[1] = "True"
    /\ sink[1] = <<>>
    /\ pc[2] = "recv"
    /\ cb[2] = "ok"
    /\ sink[2] = <<"a">>
    /\ ws[1] = "closed"
    /\ ws[2] = "open"

(***************************************************************************)
(* C17.  Supplying a sink does not change the result: a call without a     *)
(* sink and a call with a sink that returns, both past their spawn message *)
(* and having received the same frames, stand the same way: the same       *)
(* boolean or none yet, both raising or neither.                           *)
(***************************************************************************)
C17_SinkDoesNotChangeResult ==
    ( /\ cb[1] = "none"
      /\ cb[2] = "ok"
      /\ sent[1] # <<>>
      /\ sent[2] # <<>>
      /\ consumed[1] = consumed[2]
      /\ pc[2] # "sink" ) =>
        /\ outcome[1] = outcome[2]
        /\ exc[1] = exc[2]

(***************************************************************************)
(* C20.  Under fair delivery, a call on whose session the server has put a *)
(* frame that is not a line event (an exit event, a frame that is not      *)
(* text, an unrecognized event, a closing frame, a frame that cannot be    *)
(* read as an event) eventually ends with its session closed, and it never *)
(* receives a frame behind that one.                                       *)
(***************************************************************************)
C20_EventuallyEnds ==
    /\ \A c \in Solo :
          (FirstNonLine(wire[c]) # 0) ~> (Ended(c) /\ ws[c] = "closed")
    /\ [](\A c \in Solo :
             /\ Len(consumed[c]) <= Len(wire[c])
             /\ FirstNonLine(wire[c]) # 0 =>
                    Len(consumed[c]) <= FirstNonLine(wire[c]))

\* Two lines, then closure: the call has ended after these three frames.
C20_Witness ==
    /\ pc[1] = "returned"
    /\ ws[1] = "closed"
    /\ Len(consumed[1]) = 3
    /\ IsLineEvent(consumed[1][1])
    /\ IsLineEvent(consumed[1][2])
    /\ IsClosure(consumed[1][3])

====
